---- MODULE Spec2Model ----
(***************************************************************************)
(* Model of the Merkle-tree protocol of src/merkle.rs: the index           *)
(* arithmetic of `mod utils`, the default methods of `trait MerkleTree`    *)
(* (get_path, get_leaf_with_proof, set_leaf_with_proof,                    *)
(* update_leaf_data_with_proof, verify_proof) and the array backend        *)
(* MerkleAsArray of the test module, whose hooks the default methods call. *)
(***************************************************************************)
EXTENDS Integers, Sequences, FiniteSets, TLC

(* ------------------------------ bounds -------------------------------- *)

\* Largest depth D (the const generic of MerkleTree<H, D>) that is explored.
MaxD == 2

\* Largest leaf value written.
MaxVal == 3

\* Number of operations in one behaviour.
MaxOps == 3

\* Number of operations in one behaviour over a failing backend.
MaxFailOps == 2

(* ------------------------------- state -------------------------------- *)

VARIABLES
    D,         \* const generic D of MerkleTree<H, D>: the depth of the tree
    kind,      \* which two-input function Self::hash is
    data,      \* MerkleAsArray.data: the stored hash of every node, by index
    root,      \* the hash last handed to update_root_hash
    old_data,  \* data as it was when the last operation was called
    old_root,  \* root as it was when the last operation was called
    ret,       \* what the last operation returned, and the hooks it called
    prev,      \* what the operation before it returned
    nops,      \* operations called so far
    util       \* the last call of a free function (mod utils, poseidon::hash)

vars == <<D, kind, data, root, old_data, old_root, ret, prev, nops, util>>

(* --------------------------- index arithmetic ------------------------- *)

RECURSIVE Pow2(_)
Pow2(n) == IF n = 0 THEN 1 ELSE 2 * Pow2(n - 1)

\* u32::ilog2: the floor of the base-2 logarithm of n >= 1
RECURSIVE ilog2(_)
ilog2(n) == IF n <= 1 THEN 0 ELSE 1 + ilog2(n \div 2)

get_offset(index) == index - (Pow2(ilog2(index + 1)) - 1)

get_node_type(index, height) ==
    IF index >= Pow2(height + 1) - 1 THEN "NodeInvalid"
    ELSE IF index >= Pow2(height) - 1 THEN "NodeLeaf"
    ELSE "NodeNonLeaf"

boundary_check(index, height) ==
    IF get_node_type(index, height) = "NodeInvalid" THEN "InvalidIndex" ELSE "Ok"

\* leaf_check taking every index inside the tree for a leaf
leaf_check_in_tree(index, height) ==
    IF get_node_type(index, height) = "NodeInvalid" THEN "InvalidLeafIndex" ELSE "Ok"

leaf_check(index, height) ==
    IF get_node_type(index, height) # "NodeLeaf" THEN "InvalidLeafIndex" ELSE "Ok"

\* get_sibling_index taking every index for a left child
get_sibling_index_right(index) == index + 1

\* get_sibling_index taking every index for a right child
get_sibling_index_left(index) == index - 1

get_sibling_index(index) ==
    IF index % 2 = 1 THEN index + 1 ELSE index - 1

\* the loop of utils::get_path pushing each index at the end of the path
RECURSIVE get_path_loop_push(_, _, _, _)
get_path_loop_push(round, height, p, path) ==
    IF round = 0 THEN [p |-> p, path |-> path]
    ELSE get_path_loop_push(round - 1, height - 1, p \div 2,
                            Append(path, (Pow2(height) - 1) + p))

\* The loop of utils::get_path: `round` iterations left, each inserting the
\* index at the current height in front of the path and halving the offset.
RECURSIVE get_path_loop(_, _, _, _)
get_path_loop(round, height, p, path) ==
    IF round = 0 THEN [p |-> p, path |-> path]
    ELSE get_path_loop(round - 1, height - 1, p \div 2,
                       <<(Pow2(height) - 1) + p>> \o path)

\* utils::get_path once the loop has ended in r: assert!(p == 0)
get_path_looped(r) ==
    IF r.p # 0 THEN [status |-> "panic", path |-> <<>>]
    ELSE [status |-> "Ok", path |-> r.path]

\* utils::get_path: [status, path]
utils_get_path(index, height) ==
    IF leaf_check(index, height) # "Ok"
    THEN [status |-> "InvalidLeafIndex", path |-> <<>>]
    ELSE get_path_looped(
            get_path_loop(ilog2(index + 1), ilog2(index + 1),
                          index - (Pow2(ilog2(index + 1)) - 1), <<>>))

\* the vector r converted to [u32; D]: unwrap panics on another length
to_array(r) ==
    IF r.status = "Ok" /\ Len(r.path) # D
    THEN [status |-> "panic", path |-> <<>>]
    ELSE r

\* MerkleTree::get_path
get_path(index) == to_array(utils_get_path(index, D))

(* --------------------------- the hash function ------------------------ *)

\* The two-input functions explored for Self::hash: the additive hash of
\* MerkleAsArray over u64, and an order-sensitive, collision-free one (the
\* pair of its operands), standing for a cryptographic compression function.
Kinds == {"add", "pair"}

\* Self::hash
hash(a, b) == IF kind = "add" THEN a + b ELSE <<a, b>>

\* MerkleNode::hash of a leaf holding value v: the value itself for
\* MerkleU64Node, and a hash that no pair equals for the pairing hash.
node_hash(v) == IF kind = "add" THEN v ELSE <<v>>

\* The hash of a node h levels above the leaves of a tree whose leaves all
\* hold 0: what construct connects the tree to.
RECURSIVE default_hash(_)
default_hash(h) ==
    IF h = 0 THEN node_hash(0)
    ELSE hash(default_hash(h - 1), default_hash(h - 1))

(* ------------------------------ records ------------------------------- *)

\* MerkleProof { source, root, assist, index }
MerkleProof(source, rt, assist, index) ==
    [source |-> source, root |-> rt, assist |-> assist, index |-> index]

NoProof == MerkleProof(0, 0, <<>>, 0)

\* One call of a backend hook: its name, the index and the hash it is given.
Call(hook, index, h) == [hook |-> hook, index |-> index, hash |-> h]

\* The error a backend hook returns when it fails for a reason of its own.
BackendError == "InvalidHash"

\* Nodes of a tree of depth d, and its internal nodes.
Nodes(d) == 0 .. (Pow2(d + 1) - 2)
Internal(d) == 0 .. (Pow2(d) - 2)
Leaves(d) == (Pow2(d) - 1) .. (Pow2(d + 1) - 2)

(* --------------------------- backend hooks ---------------------------- *)

\* MerkleAsArray::get_root_hash
get_root_hash(d) == d[0]

\* MerkleAsArray::get_node_with_hash: the status of the n-th hook call, which
\* fails on its own when n = fail
get_node_with_hash(index, n, fail) ==
    IF n = fail THEN BackendError ELSE boundary_check(index, D)

\* MerkleAsArray::set_parent
set_parent(index, n, fail) ==
    IF n = fail THEN BackendError ELSE boundary_check(index, D)

\* MerkleAsArray::set_leaf
set_leaf(index, n, fail) ==
    IF n = fail THEN BackendError ELSE leaf_check(index, D)

(* ------------------------- get_leaf_with_proof ------------------------ *)

\* What get_leaf_with_proof answers: [status, hash (of the node returned),
\* proof, calls (the hook calls it made)]
GetResult(status, h, proof, calls) ==
    [status |-> status, hash |-> h, proof |-> proof, calls |-> calls]

\* The state of the walk down the path: the node it stands at, the sibling
\* hashes collected, the hook calls made.
Walk(status, acc, assist, calls) ==
    [status |-> status, acc |-> acc, assist |-> assist, calls |-> calls]

\* the closure yielding the hash of the child itself instead of its sibling's
walk_step_child(d, w, child, fail) ==
    IF (w.acc + 1) * 2 # child + 1 /\ (w.acc + 1) * 2 # child
    THEN Walk("panic", w.acc, w.assist, w.calls)
    ELSE IF get_node_with_hash(get_sibling_index(child), Len(w.calls) + 1, fail) # "Ok"
    THEN Walk(get_node_with_hash(get_sibling_index(child), Len(w.calls) + 1, fail),
              w.acc, w.assist,
              Append(w.calls, Call("get_node_with_hash", get_sibling_index(child), 0)))
    ELSE IF get_node_with_hash(child, Len(w.calls) + 2, fail) # "Ok"
    THEN Walk(get_node_with_hash(child, Len(w.calls) + 2, fail), w.acc, w.assist,
              w.calls \o <<Call("get_node_with_hash", get_sibling_index(child), 0),
                           Call("get_node_with_hash", child, 0)>>)
    ELSE Walk("Ok", child, Append(w.assist, d[child]),
              w.calls \o <<Call("get_node_with_hash", get_sibling_index(child), 0),
                           Call("get_node_with_hash", child, 0)>>)

\* One application of the closure mapped over the path, for the element
\* child: the walk stands at w.acc, tells the side of the child, fetches the
\* sibling and the child and yields the sibling's hash.  MerkleU64Node::left
\* and ::right both answer Some(0), the hash handed to get_node_with_hash.
walk_step(d, w, child, fail) ==
    IF (w.acc + 1) * 2 # child + 1 /\ (w.acc + 1) * 2 # child
    THEN Walk("panic", w.acc, w.assist, w.calls)
    ELSE IF get_node_with_hash(get_sibling_index(child), Len(w.calls) + 1, fail) # "Ok"
    THEN Walk(get_node_with_hash(get_sibling_index(child), Len(w.calls) + 1, fail),
              w.acc, w.assist,
              Append(w.calls, Call("get_node_with_hash", get_sibling_index(child), 0)))
    ELSE IF get_node_with_hash(child, Len(w.calls) + 2, fail) # "Ok"
    THEN Walk(get_node_with_hash(child, Len(w.calls) + 2, fail), w.acc, w.assist,
              w.calls \o <<Call("get_node_with_hash", get_sibling_index(child), 0),
                           Call("get_node_with_hash", child, 0)>>)
    ELSE Walk("Ok", child, Append(w.assist, d[get_sibling_index(child)]),
              w.calls \o <<Call("get_node_with_hash", get_sibling_index(child), 0),
                           Call("get_node_with_hash", child, 0)>>)

\* The map over the path, from its k-th element on, stopping at the first error.
RECURSIVE walk(_, _, _, _, _)
walk(d, paths, k, w, fail) ==
    IF k > Len(paths) \/ w.status # "Ok" THEN w
    ELSE walk(d, paths, k + 1, walk_step(d, w, paths[k], fail), fail)

\* get_leaf_with_proof once the walk has ended in w
get_leaf_walked(d, index, w) ==
    IF w.status # "Ok" THEN GetResult(w.status, 0, NoProof, w.calls)
    ELSE GetResult("Ok", d[w.acc],
                   MerkleProof(d[w.acc], get_root_hash(d), w.assist, index), w.calls)

\* get_leaf_with_proof once get_path has answered paths
get_leaf_on_path(d, index, paths, fail) ==
    IF paths.status # "Ok" THEN GetResult(paths.status, 0, NoProof, <<>>)
    ELSE IF get_node_with_hash(0, 1, fail) # "Ok"
    THEN GetResult(get_node_with_hash(0, 1, fail), 0, NoProof,
                   <<Call("get_node_with_hash", 0, get_root_hash(d))>>)
    ELSE get_leaf_walked(d, index,
            walk(d, paths.path, 1,
                 Walk("Ok", 0, <<>>, <<Call("get_node_with_hash", 0, get_root_hash(d))>>),
                 fail))

\* MerkleTree::get_leaf_with_proof on the stored tree d
get_leaf_with_proof(d, index, fail) ==
    IF leaf_check(index, D) # "Ok"
    THEN GetResult("InvalidLeafIndex", 0, NoProof, <<>>)
    ELSE get_leaf_on_path(d, index, get_path(index), fail)

(* ------------------------- set_leaf_with_proof ------------------------ *)

\* What a write answers: [status, proof, data (the tree stored afterwards),
\* root (the hash update_root_hash was last given), calls]
SetResult(status, proof, d, rt, calls) ==
    [status |-> status, proof |-> proof, data |-> d, root |-> rt, calls |-> calls]

\* The state of the for loop: the tree stored, the running hash, the offset,
\* the hook calls made.
Loop(status, d, h, p, calls) ==
    [status |-> status, data |-> d, hash |-> h, p |-> p, calls |-> calls]

\* parent_hash with the parity test reversed
parent_hash_reversed(h, p, a) == IF p % 2 = 1 THEN hash(h, a) ELSE hash(a, h)

\* The parent's hash computed in an iteration whose running hash is h and
\* offset p, with the sibling hash a.
parent_hash(h, p, a) == IF p % 2 = 1 THEN hash(a, h) ELSE hash(h, a)

\* parent_index without the halving of the offset
parent_index_unhalved(p, depth) == p + Pow2(depth) - 1

\* The index set_parent is given in the iteration at `depth`, p being the
\* offset before it is halved.
parent_index(p, depth) == (p \div 2) + Pow2(depth) - 1

\* Iteration i of the for loop of set_leaf_with_proof.
write_step(i, l, assist, fail) ==
    IF set_parent(parent_index(l.p, D - i - 1), Len(l.calls) + 1, fail) # "Ok"
    THEN Loop(set_parent(parent_index(l.p, D - i - 1), Len(l.calls) + 1, fail),
              l.data, parent_hash(l.hash, l.p, assist[D - i - 1 + 1]), l.p \div 2,
              Append(l.calls, Call("set_parent", parent_index(l.p, D - i - 1),
                                   parent_hash(l.hash, l.p, assist[D - i - 1 + 1]))))
    ELSE Loop("Ok",
              [l.data EXCEPT ![parent_index(l.p, D - i - 1)] =
                                 parent_hash(l.hash, l.p, assist[D - i - 1 + 1])],
              parent_hash(l.hash, l.p, assist[D - i - 1 + 1]), l.p \div 2,
              Append(l.calls, Call("set_parent", parent_index(l.p, D - i - 1),
                                   parent_hash(l.hash, l.p, assist[D - i - 1 + 1]))))

\* The for loop from iteration i on, stopping at the first error.
RECURSIVE write_loop(_, _, _, _)
write_loop(i, l, assist, fail) ==
    IF i = D \/ l.status # "Ok" THEN l
    ELSE write_loop(i + 1, write_step(i, l, assist, fail), assist, fail)

\* set_leaf_with_proof handing the leaf's hash to update_root_hash
set_leaf_looped_leaf_root(rt, index, h, assist, l) ==
    IF l.status # "Ok" THEN SetResult(l.status, NoProof, l.data, rt, l.calls)
    ELSE SetResult("Ok", MerkleProof(h, l.hash, assist, index), l.data, h,
                   Append(l.calls, Call("update_root_hash", 0, h)))

\* set_leaf_with_proof leaving the root it read in the proof
set_leaf_looped_old_root(rt, index, h, assist, l) ==
    IF l.status # "Ok" THEN SetResult(l.status, NoProof, l.data, rt, l.calls)
    ELSE SetResult("Ok", MerkleProof(h, rt, assist, index), l.data, l.hash,
                   Append(l.calls, Call("update_root_hash", 0, l.hash)))

\* set_leaf_with_proof once the loop has ended in l
set_leaf_looped(rt, index, h, assist, l) ==
    IF l.status # "Ok" THEN SetResult(l.status, NoProof, l.data, rt, l.calls)
    ELSE SetResult("Ok", MerkleProof(h, l.hash, assist, index), l.data, l.hash,
                   Append(l.calls, Call("update_root_hash", 0, l.hash)))

\* set_leaf_with_proof once get_leaf_with_proof has answered g; h is the
\* leaf's hash
set_leaf_read(d, rt, index, h, g, fail) ==
    IF g.status # "Ok" THEN SetResult(g.status, NoProof, d, rt, g.calls)
    ELSE IF set_leaf(index, Len(g.calls) + 1, fail) # "Ok"
    THEN SetResult(set_leaf(index, Len(g.calls) + 1, fail), NoProof, d, rt,
                   Append(g.calls, Call("set_leaf", index, h)))
    ELSE set_leaf_looped(rt, index, h, g.proof.assist,
            write_loop(0,
                       Loop("Ok", [d EXCEPT ![index] = h], h, get_offset(index),
                            Append(g.calls, Call("set_leaf", index, h))),
                       g.proof.assist, fail))

\* MerkleTree::set_leaf_with_proof for the leaf (index, value)
set_leaf_with_proof(d, rt, index, value, fail) ==
    set_leaf_read(d, rt, index, node_hash(value),
                  get_leaf_with_proof(d, index, fail), fail)

(* --------------------- update_leaf_data_with_proof -------------------- *)

\* u64::from_le_bytes
RECURSIVE from_le_bytes(_, _)
from_le_bytes(bytes, k) ==
    IF k > Len(bytes) THEN 0 ELSE bytes[k] + 256 * from_le_bytes(bytes, k + 1)

\* u64::to_le_bytes of a value below 256
to_le_bytes(v) == <<v, 0, 0, 0, 0, 0, 0, 0>>

\* s with the hook calls `calls` made before its own
after_calls(calls, s) == [s EXCEPT !.calls = calls \o @]

\* update_leaf_data_with_proof once get_leaf_with_proof has answered g;
\* MerkleU64Node::set unwraps the conversion of the bytes to [u8; 8]
update_leaf_read(d, rt, index, bytes, g, fail) ==
    IF g.status # "Ok" THEN SetResult(g.status, NoProof, d, rt, g.calls)
    ELSE IF Len(bytes) # 8 THEN SetResult("panic", NoProof, d, rt, g.calls)
    ELSE after_calls(g.calls,
            set_leaf_with_proof(d, rt, index, from_le_bytes(bytes, 1),
                                fail - Len(g.calls)))

\* MerkleTree::update_leaf_data_with_proof
update_leaf_data_with_proof(d, rt, index, bytes, fail) ==
    update_leaf_read(d, rt, index, bytes, get_leaf_with_proof(d, index, fail), fail)

(* ----------------------------- verify_proof --------------------------- *)

\* the fold of verify_proof combining the accumulator with itself where the
\* leaf is on the right
RECURSIVE verify_fold_self(_, _, _, _)
verify_fold_self(acc, assist, k, p) ==
    IF k > Len(assist) THEN acc
    ELSE verify_fold_self(IF p % 2 = 1 THEN hash(acc, acc) ELSE hash(acc, assist[k]),
                          assist, k + 1, p \div 2)

\* The fold of verify_proof over assist, from its k-th element on: acc is the
\* accumulator and p the offset the closure halves.
RECURSIVE verify_fold(_, _, _, _)
verify_fold(acc, assist, k, p) ==
    IF k > Len(assist) THEN acc
    ELSE verify_fold(IF p % 2 = 1 THEN hash(assist[k], acc) ELSE hash(acc, assist[k]),
                     assist, k + 1, p \div 2)

\* MerkleTree::verify_proof: [status, value]
verify_proof(proof) ==
    [status |-> "Ok",
     value |-> (proof.root = verify_fold(proof.source, proof.assist, 1,
                                         get_offset(proof.index)))]

(* ------------------------------ operations ---------------------------- *)

\* What an operation returned: the operation and its index argument, Ok or
\* the error, the hash of the node returned, the proof returned (or the one
\* verified), verify_proof's answer, get_path's answer and the hook calls made.
Ret(op, index, status, h, proof, value, path, calls) ==
    [op |-> op, index |-> index, status |-> status, hash |-> h, proof |-> proof,
     value |-> value, path |-> path, calls |-> calls]

NoRet == Ret("construct", 0, "Ok", 0, NoProof, FALSE, <<>>, <<>>)

\* A call of a free function: the function, its arguments, Ok or the way it
\* failed, what it returned, and the get_sibling_index call just before it
\* (<<>> when the call before was of another function).
Util(op, args, status, result, last) ==
    [op |-> op, args |-> args, status |-> status, result |-> result, last |-> last]

NoUtil == Util("none", <<>>, "Ok", <<>>, <<>>)

\* Indices given to the read operations: every node, and two beyond the last.
IndexInputs == 0 .. Pow2(D + 1)

\* Indices given to the write operations: every leaf, the root, the last
\* internal node and the first index beyond the tree.
WriteIndexInputs == Leaves(D) \cup {0, Pow2(D) - 2, Pow2(D + 1) - 1}

\* Leaf values written.
ValueInputs == 1 .. MaxVal

\* Raw data given to update_leaf_data_with_proof: eight bytes, or too few.
DataInputs == {to_le_bytes(MaxVal), <<1>>}

\* Hashes put in the place of one element of an assist list.
TamperHashes(proof) ==
    {proof.assist[k] : k \in 1 .. Len(proof.assist)}
        \cup {proof.source, node_hash(MaxVal + 1)}

\* proof with the k-th element of assist replaced by h
Tampered(proof, k, h) == [proof EXCEPT !.assist[k] = h]

\* Proofs given to verify_proof: the proof just returned, that proof with one
\* element of assist replaced, with assist one shorter, and one longer.
ProofInputs ==
    IF ret.op \in {"get_leaf_with_proof", "set_leaf_with_proof",
                   "update_leaf_data_with_proof"} /\ ret.status = "Ok"
    THEN {ret.proof}
         \cup {Tampered(ret.proof, k, h) :
                  k \in 1 .. Len(ret.proof.assist), h \in TamperHashes(ret.proof)}
         \cup {[ret.proof EXCEPT !.assist = SubSeq(@, 1, Len(@) - 1)],
               [ret.proof EXCEPT !.assist = Append(@, node_hash(0))]}
    ELSE {}

\* Hook calls an operation can fail at: the n-th it makes.
FailInputs == 1 .. (5 * D + 3)

\* MerkleAsArray::construct for some depth and some hash function
Init ==
    /\ D \in 1 .. MaxD
    /\ kind \in Kinds
    /\ data = [i \in Nodes(D) |-> default_hash(D - ilog2(i + 1))]
    /\ root = data[0]
    /\ old_data = data
    /\ old_root = root
    /\ ret = NoRet
    /\ prev = NoRet
    /\ nops = 0
    /\ util = NoUtil

\* An operation is called: the call is counted and the last return kept.
Called(limit) ==
    /\ nops < limit
    /\ nops' = nops + 1
    /\ prev' = [ret EXCEPT !.calls = <<>>, !.path = <<>>]
    /\ old_data' = data
    /\ old_root' = root
    /\ UNCHANGED <<D, kind, util>>

GetPathReturns(index, r) ==
    /\ ret' = Ret("get_path", index, r.status, 0, NoProof, FALSE, r.path, <<>>)
    /\ UNCHANGED <<data, root>>

GetPath(index) == GetPathReturns(index, get_path(index))

\* get_leaf_with_proof storing the default leaf at the index it read
GetLeafReturns_resetting(index, r) ==
    /\ ret' = Ret("get_leaf_with_proof", index, r.status, r.hash, r.proof,
                  FALSE, <<>>, r.calls)
    /\ data' = IF r.status = "Ok" THEN [data EXCEPT ![index] = node_hash(0)] ELSE data
    /\ UNCHANGED root

GetLeafReturns(index, r) ==
    /\ ret' = Ret("get_leaf_with_proof", index, r.status, r.hash, r.proof,
                  FALSE, <<>>, r.calls)
    /\ UNCHANGED <<data, root>>

GetLeafWithProof(index, fail) ==
    GetLeafReturns(index, get_leaf_with_proof(data, index, fail))

WriteReturns(op, index, r) ==
    /\ ret' = Ret(op, index, r.status, r.proof.source, r.proof, FALSE, <<>>, r.calls)
    /\ data' = r.data
    /\ root' = r.root

SetLeafWithProof(index, value, fail) ==
    WriteReturns("set_leaf_with_proof", index,
                 set_leaf_with_proof(data, root, index, value, fail))

UpdateLeafDataWithProof(index, bytes, fail) ==
    WriteReturns("update_leaf_data_with_proof", index,
                 update_leaf_data_with_proof(data, root, index, bytes, fail))

VerifyReturns(proof, r) ==
    /\ ret' = Ret("verify_proof", proof.index, r.status, 0, proof, r.value,
                  <<>>, <<>>)
    /\ UNCHANGED <<data, root>>

VerifyProof(proof) == VerifyReturns(proof, verify_proof(proof))

\* The operations over a backend whose hooks succeed on every valid index.
CallGetPath ==
    /\ Called(MaxOps)
    /\ \E index \in IndexInputs : GetPath(index)

CallGetLeafWithProof ==
    /\ Called(MaxOps)
    /\ \E index \in IndexInputs : GetLeafWithProof(index, 0)

CallSetLeafWithProof ==
    /\ Called(MaxOps)
    /\ \E index \in WriteIndexInputs, value \in ValueInputs :
          SetLeafWithProof(index, value, 0)

CallUpdateLeafDataWithProof ==
    /\ Called(MaxOps)
    /\ \E index \in WriteIndexInputs, bytes \in DataInputs :
          UpdateLeafDataWithProof(index, bytes, 0)

CallVerifyProof ==
    /\ Called(MaxOps)
    /\ \E proof \in ProofInputs : VerifyProof(proof)

Next ==
    \/ CallGetPath
    \/ CallGetLeafWithProof
    \/ CallSetLeafWithProof
    \/ CallUpdateLeafDataWithProof
    \/ CallVerifyProof

Spec == Init /\ [][Next]_vars

\* The operations over a backend one of whose hook calls fails.
FailGetLeafWithProof ==
    /\ Called(MaxFailOps)
    /\ \E index \in WriteIndexInputs, fail \in FailInputs :
          GetLeafWithProof(index, fail)

FailSetLeafWithProof ==
    /\ Called(MaxFailOps)
    /\ \E index \in WriteIndexInputs, value \in ValueInputs, fail \in FailInputs :
          SetLeafWithProof(index, value, fail)

FailUpdateLeafDataWithProof ==
    /\ Called(MaxFailOps)
    /\ \E index \in WriteIndexInputs, bytes \in DataInputs, fail \in FailInputs :
          UpdateLeafDataWithProof(index, bytes, fail)

NextFail ==
    \/ FailGetLeafWithProof
    \/ FailSetLeafWithProof
    \/ FailUpdateLeafDataWithProof

SpecFail == Init /\ [][NextFail]_vars

(* ------------------------- 32-bit unsigned words ---------------------- *)

\* A u32 is kept as its two 16-bit halves <<high, low>>, so that every value up
\* to u32::MAX and every wrap-around is computed exactly.
Half == 2 ^ 16

u32_MAX == <<Half - 1, Half - 1>>

\* The result of u32 arithmetic: the value the 32 bits hold, and whether some
\* step left the range of u32 (a panic in a build with overflow checks, a
\* wrap-around in a build without).
Word(value, overflow) == [value |-> value, overflow |-> overflow]

\* 2_u32.pow(exp): the low 32 bits of 2^exp, which leaves the range of u32
\* from exp = 32 on
u32_pow2(exp) ==
    IF exp < 16 THEN Word(<<0, 2 ^ exp>>, FALSE)
    ELSE IF exp < 32 THEN Word(<<2 ^ (exp - 16), 0>>, FALSE)
    ELSE Word(<<0, 0>>, TRUE)

\* w - 1 in u32
u32_pred(w) ==
    IF w.value = <<0, 0>> THEN Word(u32_MAX, TRUE)
    ELSE IF w.value[2] = 0 THEN Word(<<w.value[1] - 1, Half - 1>>, w.overflow)
    ELSE Word(<<w.value[1], w.value[2] - 1>>, w.overflow)

\* a >= b in u32
u32_ge(a, b) == a[1] > b[1] \/ (a[1] = b[1] /\ a[2] >= b[2])

\* The bound of get_node_type's assertion on height.
HeightLimit == 32

\* The builds of the crate: with overflow checks (debug) and without (release).
Builds == {"debug", "release"}

\* What get_node_type answers: [status, type, overflow]
NodeType(status, type, overflow) ==
    [status |-> status, type |-> type, overflow |-> overflow]

\* get_node_type once 2_u32.pow(height) - 1 has been computed as lower: it is
\* computed only after the first comparison has answered false
node_type_below(index, lower, overflow, build) ==
    IF lower.overflow /\ build = "debug" THEN NodeType("panic", "none", TRUE)
    ELSE NodeType("Ok",
                  IF u32_ge(index, lower.value) THEN "NodeLeaf" ELSE "NodeNonLeaf",
                  overflow \/ lower.overflow)

\* get_node_type once 2_u32.pow(height + 1) - 1 has been computed as upper
node_type_within(index, height, upper, build) ==
    IF upper.overflow /\ build = "debug" THEN NodeType("panic", "none", TRUE)
    ELSE IF u32_ge(index, upper.value)
    THEN NodeType("Ok", "NodeInvalid", upper.overflow)
    ELSE node_type_below(index, u32_pred(u32_pow2(height)), upper.overflow, build)

\* utils::get_node_type in the width of its operands: index is a u32, height a
\* usize below HeightLimit
get_node_type_u32(index, height, build) ==
    IF ~(height < HeightLimit) THEN NodeType("panic", "none", FALSE)
    ELSE node_type_within(index, height, u32_pred(u32_pow2(height + 1)), build)

(* ----------------------------- poseidon::hash ------------------------- *)

\* The modulus of Fr, the scalar field of bn256, in base-256 digits from the
\* most significant: 0x30644e72e131a029b85045b68181585d2833e84879b9709143e1f593f0000001
Fr_MODULUS ==
    <<48, 100, 78, 114, 225, 49, 160, 41, 184, 80, 69, 182, 129, 129, 88, 93,
      40, 51, 232, 72, 121, 185, 112, 145, 67, 225, 245, 147, 240, 0, 0, 1>>

\* The length in bytes of the representation of a field element.
num_of_bytes == 32

\* A field element that is given as a number is that number: its base-256
\* digits from the most significant, without leading zeros.  Fr::zero()
Fr_zero == <<>>

\* the sequence s back to front
reverse(s) == [k \in 1 .. Len(s) |-> s[Len(s) + 1 - k]]

\* the digits n without their leading zeros
strip(n) ==
    IF \A k \in 1 .. Len(n) : n[k] = 0 THEN <<>>
    ELSE SubSeq(n, CHOOSE k \in 1 .. Len(n) :
                      n[k] # 0 /\ \A j \in 1 .. (k - 1) : n[j] = 0,
                Len(n))

\* a < b, for numbers given by their digits without leading zeros
nat_lt(a, b) ==
    \/ Len(a) < Len(b)
    \/ /\ Len(a) = Len(b)
       /\ \E k \in 1 .. Len(a) : a[k] < b[k] /\ \A j \in 1 .. (k - 1) : a[j] = b[j]

\* Fr::from_repr accepting every 32 bytes
Fr_from_repr_unchecked(bytes) == [some |-> TRUE, fr |-> strip(reverse(bytes))]

\* Fr::from_repr: the element whose little-endian representation is bytes,
\* if the number they spell is below the modulus
Fr_from_repr(bytes) ==
    [some |-> nat_lt(strip(reverse(bytes)), Fr_MODULUS), fr |-> strip(reverse(bytes))]

\* Poseidon::<Fr, 3, 2>::new(8, 57): a sponge that has absorbed nothing
gen_poseidon_hasher == [absorbed |-> <<>>]

\* Poseidon::update
Poseidon_update(hasher, frs) == [hasher EXCEPT !.absorbed = @ \o frs]

\* Poseidon::squeeze: a field element of which only this is kept: it is a
\* function of the elements absorbed, different for different elements.
Poseidon_squeeze(hasher) == [squeezed |-> hasher.absorbed]

\* Fr::to_repr of an element that Poseidon::squeeze returned
Fr_to_repr(fr) == [repr |-> fr]

\* What hash answers: [status, hash]
HashResult(status, h) == [status |-> status, hash |-> h]

\* hash once every chunk has been given to Fr::from_repr, with answers frs
hash_parsed(frs) ==
    IF \E k \in 1 .. Len(frs) : ~frs[k].some
    THEN HashResult("InvalidArgument", "none")
    ELSE HashResult("Ok",
            Fr_to_repr(Poseidon_squeeze(
                Poseidon_update(gen_poseidon_hasher,
                                [k \in 1 .. Len(frs) |-> frs[k].fr]))))

\* poseidon::hash
poseidon_hash(data_to_hash) ==
    IF Len(data_to_hash) % num_of_bytes # 0
    THEN HashResult("InvalidArgument", "none")
    ELSE hash_parsed([k \in 1 .. (Len(data_to_hash) \div num_of_bytes) |->
                         Fr_from_repr(SubSeq(data_to_hash,
                                             num_of_bytes * (k - 1) + 1,
                                             num_of_bytes * k))])

(* ----------------------- calls of the free functions ------------------ *)

\* Heights given to get_node_type: to the one its assertion refuses.
HeightInputs == 0 .. HeightLimit

\* Indices given to get_node_type at a height: the root, the last internal
\* node, the first and the last leaf, the first index beyond the tree and
\* u32::MAX (computed in u32, wrapping).
NodeIndexInputs(height) ==
    {<<0, 0>>, u32_MAX,
     u32_pred(u32_pred(u32_pow2(height))).value,
     u32_pred(u32_pow2(height)).value,
     u32_pred(u32_pred(u32_pow2(height + 1))).value,
     u32_pred(u32_pow2(height + 1)).value}

GetNodeTypeReturns(index, height, build, r) ==
    /\ util' = Util("get_node_type",
                    [index |-> index, height |-> height, build |-> build],
                    r.status, [type |-> r.type, overflow |-> r.overflow], <<>>)
    /\ UNCHANGED <<D, kind, data, root, old_data, old_root, ret, prev, nops>>

GetNodeType(index, height, build) ==
    GetNodeTypeReturns(index, height, build, get_node_type_u32(index, height, build))

CallGetNodeType ==
    \E height \in HeightInputs, build \in Builds :
        \E index \in NodeIndexInputs(height) : GetNodeType(index, height, build)

\* Indices given to get_sibling_index: every node but the root, and the two
\* indices after the last leaf.
SiblingInputs == 1 .. Pow2(D + 1)

\* MerkleTree::get_sibling_index, which checks nothing and cannot fail
GetSiblingIndexReturns(index, r) ==
    /\ util' = Util("get_sibling_index", [index |-> index], "Ok", r,
                    IF util.op = "get_sibling_index"
                    THEN <<util.args.index, util.result>> ELSE <<>>)
    /\ UNCHANGED <<D, kind, data, root, old_data, old_root, ret, prev, nops>>

GetSiblingIndex(index) == GetSiblingIndexReturns(index, get_sibling_index(index))

\* get_sibling_index is given a fresh index, or the index it has just returned.
CallGetSiblingIndex ==
    \E index \in SiblingInputs
                    \cup (IF util.op = "get_sibling_index" THEN {util.result} ELSE {}) :
        GetSiblingIndex(index)

\* The depth of the tree drawn in the documentation of get_path.
DocD == 3

\* Heights given to utils::get_path, and the indices given at a height: every
\* node, and two beyond the last.
PathHeightInputs == 1 .. DocD
PathIndexInputs(height) == 0 .. Pow2(height + 1)

UtilsGetPathReturns(index, height, r) ==
    /\ util' = Util("get_path", [index |-> index, height |-> height],
                    r.status, r.path, <<>>)
    /\ UNCHANGED <<D, kind, data, root, old_data, old_root, ret, prev, nops>>

UtilsGetPath(index, height) ==
    UtilsGetPathReturns(index, height, utils_get_path(index, height))

CallUtilsGetPath ==
    \E height \in PathHeightInputs :
        \E index \in PathIndexInputs(height) : UtilsGetPath(index, height)

\* Chunks of 32 bytes: the numbers 0, 1, the modulus less 1, the modulus, and
\* a number above the modulus.
ZeroChunk == [k \in 1 .. num_of_bytes |-> 0]
OneChunk == [ZeroChunk EXCEPT ![1] = 1]
ModulusChunk == reverse(Fr_MODULUS)
BelowModulusChunk == [ModulusChunk EXCEPT ![1] = @ - 1]
AboveModulusChunk == [ZeroChunk EXCEPT ![num_of_bytes] = Fr_MODULUS[1] + 1]

ChunkInputs ==
    {ZeroChunk, OneChunk, ModulusChunk, BelowModulusChunk, AboveModulusChunk}

\* Data given to hash: nothing, one or two chunks, followed by nothing, by
\* one byte or by one byte less than a chunk.
HashInputs ==
    {c1 \o c2 \o tail :
        c1 \in ChunkInputs \cup {<<>>}, c2 \in ChunkInputs \cup {<<>>},
        tail \in {<<>>, <<0>>, SubSeq(ZeroChunk, 1, num_of_bytes - 1)}}

PoseidonHashReturns(data_to_hash, r) ==
    /\ util' = Util("hash", [data |-> data_to_hash], r.status, r.hash, <<>>)
    /\ UNCHANGED <<D, kind, data, root, old_data, old_root, ret, prev, nops>>

PoseidonHash(data_to_hash) ==
    PoseidonHashReturns(data_to_hash, poseidon_hash(data_to_hash))

CallPoseidonHash ==
    \E data_to_hash \in HashInputs : PoseidonHash(data_to_hash)

NextUtils ==
    \/ CallGetNodeType
    \/ CallGetSiblingIndex
    \/ CallUtilsGetPath
    \/ CallPoseidonHash

\* The free functions, called in any order on a tree that is left alone.
InitUtils == Init /\ kind = "add"

SpecUtils == InitUtils /\ [][NextUtils]_vars

(* ------------------------------- claims ------------------------------- *)

\* Every internal node of the stored tree d is the hash of its two children.
Consistent(d) ==
    \A i \in Internal(D) : d[i] = hash(d[2 * i + 1], d[2 * i + 2])

WriteOps == {"set_leaf_with_proof", "update_leaf_data_with_proof"}

\* The hook calls of the last operation that change the backend.
Mutations ==
    {k \in 1 .. Len(ret.calls) :
        ret.calls[k].hook \in {"set_leaf", "set_parent", "update_root_hash"}}

\* C1: the proof a successful set_leaf_with_proof returns, handed unchanged to
\* verify_proof, is answered true, whatever the depth and the hash function.
C1_RoundTrip ==
    (/\ ret.op = "verify_proof"
     /\ prev.op = "set_leaf_with_proof"
     /\ prev.status = "Ok"
     /\ ret.proof = prev.proof)
        => (ret.status = "Ok" /\ ret.value = TRUE)

\* C2: after any sequence of successful writes every internal node is the hash
\* of its children, and the root hash is the stored hash of node 0.
C2_MerkleInvariant ==
    /\ Consistent(data)
    /\ get_root_hash(data) = data[0]
    /\ root = data[0]

C2_Witness ==
    /\ nops = MaxOps
    /\ D = MaxD
    /\ kind = "pair"
    /\ ret.op = "update_leaf_data_with_proof" /\ ret.status = "Ok"
    /\ prev.op = "set_leaf_with_proof" /\ prev.status = "Ok"
    /\ prev.index # ret.index
    /\ data[0] # default_hash(D)

\* C3: for an assist list of length D, the hash verify_proof recomputes is the
\* root set_leaf_with_proof computes from the same leaf hash, list and index.
C3_SameConvention ==
    (ret.op = "verify_proof" /\ Len(ret.proof.assist) = D)
        => verify_fold(ret.proof.source, ret.proof.assist, 1,
                       get_offset(ret.proof.index))
             = write_loop(0, Loop("Ok", data, ret.proof.source,
                                  get_offset(ret.proof.index), <<>>),
                          ret.proof.assist, 0).hash

\* C4: a write that returns an error leaves every internal node the hash of
\* its children and the root hash the one from before the call.
C4_FailedWriteAtomic ==
    (ret.op \in WriteOps /\ ret.status # "Ok")
        => (/\ Consistent(data)
            /\ get_root_hash(data) = get_root_hash(old_data)
            /\ root = old_root)

\* C5: verify_proof answers a proof whose assist list is not of length D with
\* an InvalidDepth or InvalidHash error, never with true or false.
C5_FailClosed ==
    (ret.op = "verify_proof" /\ Len(ret.proof.assist) # D)
        => ret.status \in {"InvalidDepth", "InvalidHash"}

\* C6: a read or a write called with an index that is no leaf of the tree
\* returns InvalidLeafIndex or InvalidIndex, calls no mutating hook and leaves
\* the stored nodes and the root as they were.
C6_Boundary ==
    (/\ ret.op \in WriteOps \cup {"get_leaf_with_proof"}
     /\ ret.index \notin Leaves(D))
        => (/\ ret.status \in {"InvalidLeafIndex", "InvalidIndex"}
            /\ Mutations = {}
            /\ data = old_data
            /\ root = old_root)

C6_Witness ==
    /\ ret.op = "update_leaf_data_with_proof"
    /\ ret.index = Pow2(D + 1) - 1
    /\ ret.status = "InvalidLeafIndex"
    /\ prev.op = "set_leaf_with_proof"
    /\ prev.index = Pow2(D) - 2
    /\ prev.status = "InvalidLeafIndex"
    /\ data[0] # default_hash(D)

\* b is a with exactly one element of assist replaced by another hash.
SingleTamper(a, b) ==
    /\ b.source = a.source /\ b.root = a.root /\ b.index = a.index
    /\ Len(b.assist) = Len(a.assist)
    /\ Cardinality({k \in 1 .. Len(a.assist) : a.assist[k] # b.assist[k]}) = 1

\* C7: with a collision-free hash, a proof returned by a read or a write with
\* one element of assist replaced by a different hash is not answered true.
C7_TamperDetected ==
    (/\ kind = "pair"
     /\ ret.op = "verify_proof"
     /\ prev.op \in WriteOps \cup {"get_leaf_with_proof"}
     /\ SingleTamper(prev.proof, ret.proof))
        => ~(ret.status = "Ok" /\ ret.value = TRUE)

C7_Witness ==
    /\ kind = "pair"
    /\ D = MaxD
    /\ ret.op = "verify_proof"
    /\ prev.op = "get_leaf_with_proof"
    /\ SingleTamper(prev.proof, ret.proof)
    /\ ret.proof.assist[1] = prev.proof.assist[D]
    /\ ret.proof.assist[D] = prev.proof.assist[D]
    /\ data[0] # default_hash(D)
    /\ ret.value = FALSE

\* C8: get_leaf_with_proof on a leaf calls no mutating hook and changes
\* nothing stored, and called twice in a row with one index it returns the
\* same node and the same proof.
C8_ReadIdempotent ==
    (/\ ret.op = "get_leaf_with_proof"
     /\ ret.index \in Leaves(D))
        => (/\ ret.status = "Ok"
            /\ Mutations = {}
            /\ data = old_data
            /\ root = old_root
            /\ (prev.op = "get_leaf_with_proof" /\ prev.index = ret.index)
                  => (/\ prev.status = ret.status
                      /\ prev.hash = ret.hash
                      /\ prev.proof = ret.proof))

C8_Witness ==
    /\ ret.op = "get_leaf_with_proof"
    /\ ret.index \in Leaves(D)
    /\ prev.op = "get_leaf_with_proof"
    /\ prev.index = ret.index
    /\ ret.proof.source # node_hash(0)
    /\ Len(ret.proof.assist) = D

RECURSIVE SumOver(_, _)
SumOver(d, S) ==
    IF S = {} THEN 0
    ELSE LET i == CHOOSE x \in S : TRUE IN d[i] + SumOver(d, S \ {i})

\* C9: with the additive hash and every node 0 at first, the root hash is the
\* sum of the leaves after any sequence of writes; writing 1, then 2 to another
\* leaf, then 3 to a third leaf gives the roots 1, 3 and 6.
C9_AdditiveRoot ==
    kind = "add"
        => (/\ get_root_hash(data) = SumOver(data, Leaves(D))
            /\ (ret.op = "set_leaf_with_proof" /\ ret.status = "Ok")
                  => ret.proof.root = SumOver(data, Leaves(D))
            /\ (/\ nops = 1 /\ ret.op = "set_leaf_with_proof" /\ ret.status = "Ok"
                /\ ret.hash = 1)
                  => get_root_hash(data) = 1
            /\ (/\ nops = 2 /\ ret.op = "set_leaf_with_proof" /\ ret.status = "Ok"
                /\ ret.hash = 2 /\ old_root = 1 /\ old_data[ret.index] = 0)
                  => get_root_hash(data) = 3
            /\ (/\ nops = 3 /\ ret.op = "set_leaf_with_proof" /\ ret.status = "Ok"
                /\ ret.hash = 3 /\ old_root = 3 /\ old_data[ret.index] = 0
                /\ prev.op = "set_leaf_with_proof" /\ prev.hash = 2)
                  => get_root_hash(data) = 6)

C9_Witness ==
    /\ kind = "add"
    /\ nops = 3
    /\ ret.op = "set_leaf_with_proof" /\ ret.status = "Ok" /\ ret.hash = 3
    /\ old_root = 3 /\ old_data[ret.index] = 0
    /\ prev.op = "set_leaf_with_proof" /\ prev.hash = 2 /\ prev.proof.root = 3
    /\ Cardinality({i \in Leaves(D) : data[i] # 0}) = 3
    /\ get_root_hash(data) = 6

Level(index) ==
    IF index[2] = Half - 1 THEN 16 + ilog2(index[1] + 1)
    ELSE IF index[1] > 0 THEN 16 + ilog2(index[1])
    ELSE ilog2(index[2] + 1)

\* C11: for every height from 1 to 31 (those the assertion of get_node_type
\* admits) and every u32 index, get_node_type answers NodeInvalid for an index
\* of 2^(height+1)-1 or more, NodeLeaf for one from 2^height-1 on and
\* NodeNonLeaf below, and no step of its u32 arithmetic leaves the range of u32.
C11_NodeTypeInRange ==
    (util.op = "get_node_type" /\ util.args.height \in 1 .. (HeightLimit - 1))
        => (/\ util.status = "Ok"
            /\ ~util.result.overflow
            /\ util.result.type =
                  (IF Level(util.args.index) > util.args.height THEN "NodeInvalid"
                   ELSE IF Level(util.args.index) = util.args.height THEN "NodeLeaf"
                   ELSE "NodeNonLeaf"))

\* C12: get_sibling_index is an involution on the nodes other than the root:
\* given the index it returned for a node i from 1 to 2^(D+1)-2, it returns i.
C12_SiblingInvolution ==
    (/\ util.op = "get_sibling_index"
     /\ util.last # <<>>
     /\ util.args.index = util.last[2]
     /\ util.last[1] \in 1 .. (Pow2(D + 1) - 2))
        => util.result = util.last[1]

C12_Witness ==
    /\ util.op = "get_sibling_index"
    /\ D = MaxD
    /\ util.last = <<Pow2(D + 1) - 2, Pow2(D + 1) - 3>>
    /\ util.args.index = Pow2(D + 1) - 3
    /\ util.result = Pow2(D + 1) - 2

\* C13: get_path answers what its documentation says: the indices from the
\* leaf to the root (each the parent of the one before it), the root's index
\* 0 not among them, and <<3, 1>> for index 7 in a tree of depth 3.
C13_DocumentedPath ==
    (util.op = "get_path" /\ util.status = "Ok")
        => (/\ \A k \in 1 .. (Len(util.result) - 1) :
                  util.result[k + 1] = (util.result[k] - 1) \div 2
            /\ \A k \in 1 .. Len(util.result) : util.result[k] # 0
            /\ (util.args.height = DocD /\ util.args.index = 7)
                  => util.result = <<3, 1>>)

\* The ancestor at depth k of the leaf `index` (the root for k = 0, the leaf
\* itself for k = D), and the other child of the parent of node i.
Ancestor(index, k) == ((index + 1) \div Pow2(D - k)) - 1
OtherChild(i) == 4 * ((i - 1) \div 2) + 3 - i

\* The nodes from the leaf `index` up to the root, both included.
OnPath(index) == {Ancestor(index, k) : k \in 0 .. D}

\* C14: get_leaf_with_proof of a leaf index succeeds and returns the node
\* stored at the index and a proof whose source is the leaf's stored hash,
\* whose root is the current root hash, whose index is the index, and whose
\* assist holds, for k = 1 .. D, the stored hash of the sibling of the leaf's
\* ancestor at depth k (first the root's child off the path, last the leaf's
\* own sibling).
C14_ReadProof ==
    (ret.op = "get_leaf_with_proof" /\ ret.index \in Leaves(D))
        => (/\ ret.status = "Ok"
            /\ ret.hash = data[ret.index]
            /\ ret.proof.source = data[ret.index]
            /\ ret.proof.root = get_root_hash(data)
            /\ ret.proof.index = ret.index
            /\ Len(ret.proof.assist) = D
            /\ \A k \in 1 .. D :
                  ret.proof.assist[k] = data[OtherChild(Ancestor(ret.index, k))])

C14_Witness ==
    /\ ret.op = "get_leaf_with_proof" /\ ret.status = "Ok"
    /\ D = MaxD
    /\ kind = "pair"
    /\ ret.index = Pow2(D) - 1
    /\ ret.proof.source = node_hash(0)
    /\ ret.proof.assist[D] # node_hash(0)
    /\ ret.proof.assist[1] # default_hash(D - 1)
    /\ ret.proof.assist[1] # ret.proof.assist[D]

\* C15: a successful set_leaf_with_proof changes no stored hash but those of
\* the leaf and of its D ancestors, and the assist of the proof it returns is
\* the sibling hashes as they were stored before the write: the assist that a
\* get_leaf_with_proof of the same leaf returned just before.
C15_WriteFrame ==
    (ret.op = "set_leaf_with_proof" /\ ret.status = "Ok")
        => (/\ \A i \in Nodes(D) \ OnPath(ret.index) : data[i] = old_data[i]
            /\ Len(ret.proof.assist) = D
            /\ \A k \in 1 .. D :
                  ret.proof.assist[k] = old_data[OtherChild(Ancestor(ret.index, k))]
            /\ (/\ prev.op = "get_leaf_with_proof"
                /\ prev.status = "Ok"
                /\ prev.index = ret.index)
                  => ret.proof.assist = prev.proof.assist)

C15_Witness ==
    /\ ret.op = "set_leaf_with_proof" /\ ret.status = "Ok"
    /\ D = MaxD
    /\ kind = "pair"
    /\ prev.op = "get_leaf_with_proof" /\ prev.status = "Ok"
    /\ prev.index = ret.index
    /\ ret.index = Pow2(D + 1) - 2
    /\ \A i \in OnPath(ret.index) : data[i] # old_data[i]
    /\ \E i \in Leaves(D) \ {ret.index} : data[i] # node_hash(0)

\* The hooks that change the backend.
Mutating == {"set_leaf", "set_parent", "update_root_hash"}

\* C16: in the hook calls of a set_leaf_with_proof no read follows a mutation;
\* set_leaf is called once at most, every set_parent comes right after
\* set_leaf or a set_parent and is given the parent (index - 1) / 2 of the
\* index of that call; update_root_hash is called only as the last call of a
\* write that succeeds, after D set_parent calls the last of which is at
\* index 0, with the hash that call was given; and a write that succeeds makes
\* 2D+1 reads, set_leaf at the leaf, D set_parent and update_root_hash.
C16_CallOrder ==
    ret.op = "set_leaf_with_proof"
        => (/\ \A a, b \in 1 .. Len(ret.calls) :
                  (a < b /\ ret.calls[a].hook \in Mutating)
                      => ret.calls[b].hook # "get_node_with_hash"
            /\ Cardinality({k \in 1 .. Len(ret.calls) :
                               ret.calls[k].hook = "set_leaf"}) <= 1
            /\ \A k \in 1 .. Len(ret.calls) :
                  ret.calls[k].hook = "set_parent"
                      => (/\ k > 1
                          /\ ret.calls[k - 1].hook \in {"set_leaf", "set_parent"}
                          /\ ret.calls[k].index = (ret.calls[k - 1].index - 1) \div 2)
            /\ \A k \in 1 .. Len(ret.calls) :
                  ret.calls[k].hook = "update_root_hash"
                      => (/\ ret.status = "Ok"
                          /\ k = Len(ret.calls)
                          /\ k > D + 1
                          /\ \A j \in 1 .. D : ret.calls[k - j].hook = "set_parent"
                          /\ ret.calls[k - D - 1].hook = "set_leaf"
                          /\ ret.calls[k - 1].index = 0
                          /\ ret.calls[k].hash = ret.calls[k - 1].hash)
            /\ ret.status = "Ok"
                  => (/\ Len(ret.calls) = 3 * D + 3
                      /\ ret.calls[2 * D + 2] =
                            Call("set_leaf", ret.index, ret.proof.source)
                      /\ ret.calls[3 * D + 3].hook = "update_root_hash"))

C16_Witness ==
    /\ ret.op = "set_leaf_with_proof" /\ ret.status = "Ok"
    /\ D = MaxD
    /\ kind = "pair"
    /\ Len(ret.calls) = 3 * D + 3
    /\ ret.calls[3 * D + 3] = Call("update_root_hash", 0, data[0])
    /\ ret.calls[3 * D + 2] = Call("set_parent", 0, data[0])
    /\ ret.calls[2 * D + 3].index = (ret.index - 1) \div 2
    /\ prev.op = "set_leaf_with_proof" /\ prev.status = BackendError

\* C17: a get_leaf_with_proof that follows a successful set_leaf_with_proof of
\* the same leaf succeeds and returns a node whose hash is the hash of the
\* leaf written and a proof with the source, root, assist and index of the
\* proof the write returned.
C17_WriteThenRead ==
    (/\ ret.op = "get_leaf_with_proof"
     /\ prev.op = "set_leaf_with_proof"
     /\ prev.status = "Ok"
     /\ ret.index = prev.index)
        => (/\ ret.status = "Ok"
            /\ ret.hash = prev.hash
            /\ ret.proof.source = prev.proof.source
            /\ ret.proof.root = prev.proof.root
            /\ ret.proof.assist = prev.proof.assist
            /\ ret.proof.index = prev.proof.index)

C17_Witness ==
    /\ ret.op = "get_leaf_with_proof" /\ ret.status = "Ok"
    /\ prev.op = "set_leaf_with_proof" /\ prev.status = "Ok"
    /\ ret.index = prev.index
    /\ D = MaxD
    /\ kind = "pair"
    /\ nops = MaxOps
    /\ ret.hash = node_hash(MaxVal)
    /\ ret.proof.assist[D] # node_hash(0)

\* The 32 little-endian bytes chunk spell a number below the modulus of Fr:
\* at the most significant byte where they differ from the modulus, they are
\* smaller.
IsCanonical(chunk) ==
    \E k \in 1 .. num_of_bytes :
        /\ chunk[k] < Fr_MODULUS[num_of_bytes + 1 - k]
        /\ \A j \in (k + 1) .. num_of_bytes : chunk[j] = Fr_MODULUS[num_of_bytes + 1 - j]

\* The k-th whole chunk of data.
WholeChunk(bytes, k) == SubSeq(bytes, num_of_bytes * (k - 1) + 1, num_of_bytes * k)

\* C18: hash answers InvalidArgument, and no hash, exactly when the length of
\* the data is no multiple of 32 or one of its 32-byte chunks does not spell a
\* number below the modulus, and Ok otherwise; and the hash of 32 zero bytes
\* is the representation of what a fresh hasher squeezes after it is updated
\* with the one element zero.
C18_PoseidonHash ==
    util.op = "hash"
        => (/\ util.status \in {"Ok", "InvalidArgument"}
            /\ util.status = "InvalidArgument"
                  <=> (\/ Len(util.args.data) % num_of_bytes # 0
                       \/ \E k \in 1 .. (Len(util.args.data) \div num_of_bytes) :
                             ~IsCanonical(WholeChunk(util.args.data, k)))
            /\ util.status = "InvalidArgument" => util.result = "none"
            /\ util.args.data = ZeroChunk
                  => (/\ util.status = "Ok"
                      /\ util.result =
                            Fr_to_repr(Poseidon_squeeze(
                                Poseidon_update(gen_poseidon_hasher, <<Fr_zero>>)))))

\* hash of 32 zero bytes has answered
C18_Witness ==
    /\ util.op = "hash"
    /\ util.args.data = ZeroChunk
    /\ util.status = "Ok"
    /\ util.result.repr.squeezed = <<Fr_zero>>

====
